---------------------------- MODULE Spec2Model ----------------------------
(***************************************************************************)
(* Word Cloud Generator (wordcloudgenv5.py): the RoundedButton widget, the *)
(* WordCloudApp controller, its settings file and its generation worker    *)
(* threads, as a state machine.                                            *)
(*                                                                         *)
(* Three specifications share the variables:                               *)
(*   Spec / FairSpec  the running application: file dialogs, theme, the    *)
(*                    exclusion text, generation runs, closing the window  *)
(*   SpecSettings     settings file -> startup -> edits -> shutdown ->     *)
(*                    next startup, with a richer set of texts             *)
(*   SpecButton       one RoundedButton under arbitrary pointer events and *)
(*                    enable()/disable()/configure_colors() calls          *)
(***************************************************************************)
EXTENDS Integers, Sequences, FiniteSets, TLC

VARIABLES
    phase,              \* "boot" | "running" | "closed" | "crashed"; "widget" for a button on its own
    settings_file,      \* content of ~/.wordcloud_app_settings.json
    input_file_path,    \* tk.StringVar, "" when unset
    output_file_path,   \* tk.StringVar, "" when unset
    exclusion_text,     \* content of the ScrolledText (without Tk's final newline)
    dark_mode,          \* dark_mode_switch.instate(['selected'])
    active_theme,       \* "light" | "dark"
    status_label,       \* <<kind, payload>>
    last_dialog,        \* the messagebox the last handler of the UI thread showed, if any
    generate_button,    \* the RoundedButton: disabled, palette, painted, laid_out, pending
    pointer_down,       \* mouse button 1 is held after a press on the button
    press_enabled,      \* history: the button was enabled at that press
    invocations,        \* history: times the command of the stand-alone button was called
    workers,            \* generation threads, by slot
    after_queue,        \* <<thread, result>> of the callbacks scheduled with self.after(0, ...)
    last_import,        \* history: the import the last handler of the UI thread did, if any
    shutdown_ui,        \* history: the UI's theme flag and text when _on_closing ran
    startup_ui          \* history: the theme flag and text __init__ set up

vars == <<phase, settings_file, input_file_path, output_file_path, exclusion_text,
          dark_mode, active_theme, status_label, last_dialog, generate_button,
          pointer_down, press_enabled, invocations, workers, after_queue,
          last_import, shutdown_ui, startup_ui>>

app_vars == <<phase, settings_file, input_file_path, output_file_path, exclusion_text,
              dark_mode, active_theme, status_label, last_dialog, workers,
              after_queue, last_import, shutdown_ui, startup_ui>>

pointer_vars == <<pointer_down, press_enabled>>

---------------------------------------------------------------------------
(* Bounds of the model *)

\* generation threads alive at once
MaxRuns == 2
\* longest exclusion text the settings specification edits or imports into
MaxText == 3
\* longest file imported into the exclusion text
MaxFile == 1
\* deferred draws a button collects before it is laid out
MaxPending == 2
\* command invocations counted for the stand-alone button
MaxInvocations == 2

---------------------------------------------------------------------------
(* Text: a string is a sequence of characters. The texts typed and imported *)
(* are made of "a", standing for any non-whitespace character, and of the   *)
(* newline, the whitespace the program itself inserts.                      *)

Chars == {"a", "\n"}

Whitespace == {" ", "\t", "\n"}

RECURSIVE TextsOfLen(_)
TextsOfLen(n) == IF n = 0 THEN {<<>>} ELSE {Append(t, c) : t \in TextsOfLen(n - 1), c \in Chars}

Texts(n) == UNION {TextsOfLen(k) : k \in 0..n}

\* the exclusion texts typed and imported while generation runs are modelled
RunTexts == {<<>>, <<"a">>}

RECURSIVE lstrip(_)
lstrip(s) == IF s # <<>> /\ Head(s) \in Whitespace THEN lstrip(Tail(s)) ELSE s

RECURSIVE rstrip(_)
rstrip(s) == IF s # <<>> /\ s[Len(s)] \in Whitespace THEN rstrip(SubSeq(s, 1, Len(s) - 1)) ELSE s

\* str.strip()
strip(s) == rstrip(lstrip(s))

\* Text.get("1.0", tk.END): the content followed by the widget's final newline
text_get(content) == content \o <<"\n">>

RECURSIVE join(_, _)
join(sep, words) == IF words = <<>> THEN <<>> ELSE IF Len(words) = 1 THEN <<words[1]>> ELSE <<words[1], sep>> \o join(sep, Tail(words))

default_exclusion_words == <<
    "author", "post", "content", "reddit", "score", "url", "subreddit", "title", "Steam", "Comment", "https", "Comments", "u", "account",
    "comments", "csgomarketforum", "SteamScams", "scam", "trade", "support", "png", "game", "csgo", "redd", "got", "skin", "item", "S",
    "will", "items", "one", "someone", "know", "scammed", "guy", "people" >>

DefaultExclusionText == join("\n", default_exclusion_words)

---------------------------------------------------------------------------
(* RoundedButton *)

NoPaint == [kind |-> "none", palette |-> "initial"]

\* RoundedButton.__init__
NewButton == [disabled |-> FALSE, palette |-> "initial", painted |-> NoPaint, laid_out |-> FALSE, pending |-> 0]

\* a draw that ignores the disabled flag
draw_ignoring_disabled(b, color) == IF ~b.laid_out THEN [b EXCEPT !.pending = @ + 1] ELSE [b EXCEPT !.painted = [kind |-> IF color # "none" THEN color ELSE "bg", palette |-> b.palette]]

\* RoundedButton.draw(color): deferred while the widget has no size; the
\* disabled colour wins over the colour asked for
draw(b, color) == IF ~b.laid_out THEN [b EXCEPT !.pending = @ + 1] ELSE [b EXCEPT !.painted = [kind |-> IF b.disabled THEN "disabled" ELSE IF color # "none" THEN color ELSE "bg", palette |-> b.palette]]

on_enter(b) == IF ~b.disabled THEN draw(b, "hover") ELSE b

on_leave(b) == IF ~b.disabled THEN draw(b, "none") ELSE b

on_press(b) == IF ~b.disabled THEN draw(b, "pressed") ELSE b

\* the repaint half of _on_release; the command call is in the actions
on_release(b) == IF ~b.disabled THEN draw(b, "hover") ELSE b

configure_colors(b, theme) == draw([b EXCEPT !.palette = theme], "none")

disable(b) == draw([b EXCEPT !.disabled = TRUE], "none")

enable(b) == draw([b EXCEPT !.disabled = FALSE], "none")

\* winfo_width() and winfo_height() become > 1: the geometry manager has run
Layout == /\ phase \in {"running", "widget"}
          /\ ~generate_button.laid_out
          /\ generate_button' = [generate_button EXCEPT !.laid_out = TRUE]
          /\ UNCHANGED <<app_vars, pointer_vars, invocations>>

\* the timer of self.after(10, self.draw) fires
DeferredDraw == /\ phase \in {"running", "widget"}
                /\ generate_button.pending > 0
                /\ generate_button' = draw([generate_button EXCEPT !.pending = @ - 1], "none")
                /\ UNCHANGED <<app_vars, pointer_vars, invocations>>

Enter == /\ phase \in {"running", "widget"}
         /\ generate_button.laid_out
         /\ generate_button' = on_enter(generate_button)
         /\ UNCHANGED <<app_vars, pointer_vars, invocations>>

Leave == /\ phase \in {"running", "widget"}
         /\ generate_button.laid_out
         /\ generate_button' = on_leave(generate_button)
         /\ UNCHANGED <<app_vars, pointer_vars, invocations>>

Press == /\ phase \in {"running", "widget"}
         /\ generate_button.laid_out
         /\ ~pointer_down
         /\ pointer_down' = TRUE
         /\ press_enabled' = ~generate_button.disabled
         /\ generate_button' = on_press(generate_button)
         /\ UNCHANGED <<app_vars, invocations>>

\* the opaque command callback of a stand-alone button
ReleaseButton == /\ phase = "widget"
                 /\ generate_button.laid_out
                 /\ pointer_down
                 /\ pointer_down' = FALSE
                 /\ press_enabled' = FALSE
                 /\ generate_button' = on_release(generate_button)
                 /\ IF ~generate_button.disabled
                    THEN invocations < MaxInvocations /\ invocations' = invocations + 1
                    ELSE invocations' = invocations
                 /\ UNCHANGED app_vars

\* the owner calls disable()
CallDisable == /\ phase = "widget"
               /\ generate_button.laid_out \/ generate_button.pending < MaxPending
               /\ generate_button' = disable(generate_button)
               /\ UNCHANGED <<app_vars, pointer_vars, invocations>>

\* the owner calls enable()
CallEnable == /\ phase = "widget"
              /\ generate_button.laid_out \/ generate_button.pending < MaxPending
              /\ generate_button' = enable(generate_button)
              /\ UNCHANGED <<app_vars, pointer_vars, invocations>>

\* the owner calls configure_colors() with the colours of a theme
CallConfigureColors == /\ phase = "widget"
                       /\ generate_button.laid_out \/ generate_button.pending < MaxPending
                       /\ \E theme \in {"light", "dark"} : generate_button' = configure_colors(generate_button, theme)
                       /\ UNCHANGED <<app_vars, pointer_vars, invocations>>

---------------------------------------------------------------------------
(* Settings file *)

NoSettings == [kind |-> "object", has_dark |-> FALSE, dark |-> FALSE, has_list |-> FALSE, list |-> <<>>]

FileOfKind(k) == [NoSettings EXCEPT !.kind = k]

\* the file is absent; holds text that is no JSON; holds bytes that are no
\* text; holds JSON that is no object (a list, a number, null)
InvalidKinds == {"missing", "malformed", "undecodable", "not_object"}

SettingsObjects(texts) == {[kind |-> "object", has_dark |-> hd, dark |-> d, has_list |-> hl, list |-> l] : hd \in BOOLEAN, d \in BOOLEAN, hl \in BOOLEAN, l \in texts}

SettingsFiles(texts) == {FileOfKind(k) : k \in InvalidKinds} \cup {f \in SettingsObjects(texts) : (~f.has_dark => ~f.dark) /\ (~f.has_list => f.list = <<>>)}

\* _load_settings: FileNotFoundError and JSONDecodeError give {}; any other
\* exception propagates; whatever json.load returns is returned
load_settings(file) == IF file.kind \in {"missing", "malformed"} THEN NoSettings ELSE IF file.kind = "undecodable" THEN FileOfKind("raised") ELSE file

\* a save that does not trim the text
save_settings_untrimmed(dark, content) == [kind |-> "object", has_dark |-> TRUE, dark |-> dark, has_list |-> TRUE, list |-> text_get(content)]

\* _save_settings
save_settings(dark, content) == [kind |-> "object", has_dark |-> TRUE, dark |-> dark, has_list |-> TRUE, list |-> strip(text_get(content))]

\* settings.get("exclusion_list", "\n".join(self.default_exclusion_words))
initial_exclusion_list(settings) == IF settings.has_list THEN settings.list ELSE DefaultExclusionText

\* settings.get("dark_mode", False)
is_dark_mode(settings) == IF settings.has_dark THEN settings.dark ELSE FALSE

---------------------------------------------------------------------------
(* WordCloudApp *)

InputPaths == {"in1.txt", "in2.txt"}

OutputPaths == {"out.png"}

Runs == 1..MaxRuns

NoRequest == [input_path |-> "", output_path |-> "", exclusion |-> <<>>]

\* a worker thread: snapshot is the UI's fields when the run was started, kept
\* until the thread has read the field itself; fresh says that what the thread
\* read so far is what the snapshot held
IdleWorker == [pc |-> "idle", snapshot |-> NoRequest, output_path |-> "", fresh |-> TRUE, raised |-> "none"]

NoUi == [set |-> FALSE, dark |-> FALSE, text |-> <<>>]

NoImport == [done |-> FALSE, before |-> <<>>, content |-> <<>>, after |-> <<>>]

Ready == <<"Ready", "">>

NoDialog == <<"none", "", "">>

\* the process before WordCloudApp() is constructed
ProcessStart(file, ph) ==
    /\ phase = ph
    /\ settings_file = file
    /\ input_file_path = ""
    /\ output_file_path = ""
    /\ exclusion_text = <<>>
    /\ dark_mode = FALSE
    /\ active_theme = "light"
    /\ status_label = Ready
    /\ last_dialog = NoDialog
    /\ generate_button = NewButton
    /\ pointer_down = FALSE
    /\ press_enabled = FALSE
    /\ invocations = 0
    /\ workers = [r \in Runs |-> IdleWorker]
    /\ after_queue = <<>>
    /\ last_import = NoImport
    /\ shutdown_ui = NoUi
    /\ startup_ui = NoUi

\* an enablement rule that needs only one of the two paths
update_generate_button_state_either(b, input_path, output_path) == IF input_path # "" \/ output_path # "" THEN enable(b) ELSE disable(b)

\* _update_generate_button_state
update_generate_button_state(b, input_path, output_path) == IF input_path # "" /\ output_path # "" THEN enable(b) ELSE disable(b)

\* WordCloudApp.__init__ with create_widgets, and toggle_theme / apply_theme
\* through dark_mode_switch.invoke() or apply_theme()
Startup ==
    /\ phase = "boot"
    /\ LET settings == load_settings(settings_file)
       IN IF settings.kind # "object"
          THEN /\ phase' = "crashed"
               /\ UNCHANGED <<exclusion_text, dark_mode, active_theme, generate_button, startup_ui>>
          ELSE /\ phase' = "running"
               /\ exclusion_text' = initial_exclusion_list(settings)
               /\ dark_mode' = is_dark_mode(settings)
               /\ active_theme' = IF is_dark_mode(settings) THEN "dark" ELSE "light"
               /\ generate_button' = configure_colors(disable(NewButton), IF is_dark_mode(settings) THEN "dark" ELSE "light")
               /\ startup_ui' = [set |-> TRUE, dark |-> is_dark_mode(settings), text |-> initial_exclusion_list(settings)]
    /\ UNCHANGED <<settings_file, input_file_path, output_file_path, status_label, last_dialog,
                   pointer_vars, invocations, workers, after_queue, last_import, shutdown_ui>>

\* the user can act once the window is on screen: it has been laid out and
\* the 10 ms timers of the repaints deferred during construction have fired
Interactive == phase = "running" /\ generate_button.laid_out /\ generate_button.pending = 0

\* select_input_file; path = "" is a cancelled dialog
SelectInputFile ==
    /\ Interactive
    /\ last_import' = NoImport
    /\ last_dialog' = NoDialog
    /\ \E path \in InputPaths \cup {""} :
          IF path # ""
          THEN /\ input_file_path' = path
               /\ generate_button' = update_generate_button_state(generate_button, path, output_file_path)
          ELSE UNCHANGED <<input_file_path, generate_button>>
    /\ UNCHANGED <<phase, settings_file, output_file_path, exclusion_text, dark_mode, active_theme,
                   status_label, pointer_vars, invocations, workers, after_queue,
                   shutdown_ui, startup_ui>>

\* set_output_file; path = "" is a cancelled dialog
SetOutputFile ==
    /\ Interactive
    /\ last_import' = NoImport
    /\ last_dialog' = NoDialog
    /\ \E path \in OutputPaths \cup {""} :
          IF path # ""
          THEN /\ output_file_path' = path
               /\ generate_button' = update_generate_button_state(generate_button, input_file_path, path)
          ELSE UNCHANGED <<output_file_path, generate_button>>
    /\ UNCHANGED <<phase, settings_file, input_file_path, exclusion_text, dark_mode, active_theme,
                   status_label, pointer_vars, invocations, workers, after_queue,
                   shutdown_ui, startup_ui>>

\* the user flips the Dark Mode switch: toggle_theme, apply_theme
ToggleTheme ==
    /\ Interactive
    /\ last_import' = NoImport
    /\ last_dialog' = NoDialog
    /\ dark_mode' = ~dark_mode
    /\ active_theme' = IF dark_mode' THEN "dark" ELSE "light"
    /\ generate_button' = configure_colors(generate_button, active_theme')
    /\ UNCHANGED <<phase, settings_file, input_file_path, output_file_path, exclusion_text,
                   status_label, pointer_vars, invocations, workers, after_queue,
                   shutdown_ui, startup_ui>>

\* the user types in the exclusion text area
EditExclusionText(texts) ==
    /\ Interactive
    /\ last_dialog' = NoDialog
    /\ \E t \in texts : t # exclusion_text /\ exclusion_text' = t
    /\ last_import' = NoImport
    /\ UNCHANGED <<phase, settings_file, input_file_path, output_file_path, dark_mode, active_theme,
                   status_label, generate_button, pointer_vars, invocations, workers,
                   after_queue, shutdown_ui, startup_ui>>

\* the text import_exclusion_list leaves in the widget
imported_text(content, new_words) == IF strip(text_get(content)) # <<>> THEN content \o <<"\n">> \o new_words ELSE content \o new_words

\* import_exclusion_list: a cancelled dialog, a file that cannot be read, or
\* a file read and inserted at the end of the text; the texts modelled are
\* those of `texts`
ImportExclusionList(files, texts) ==
    /\ Interactive
    /\ \/ /\ last_dialog' = NoDialog
          /\ last_import' = NoImport
          /\ UNCHANGED exclusion_text
       \/ /\ last_dialog' = <<"showerror", "Failed to import file", "read_error">>
          /\ last_import' = NoImport
          /\ UNCHANGED exclusion_text
       \/ \E new_words \in files :
             /\ imported_text(exclusion_text, new_words) \in texts
             /\ exclusion_text' = imported_text(exclusion_text, new_words)
             /\ last_dialog' = <<"showinfo", "Exclusion list imported successfully.", "">>
             /\ last_import' = [done |-> TRUE, before |-> exclusion_text, content |-> new_words, after |-> exclusion_text']
    /\ UNCHANGED <<phase, settings_file, input_file_path, output_file_path, dark_mode, active_theme,
                   status_label, generate_button, pointer_vars, invocations, workers,
                   after_queue, shutdown_ui, startup_ui>>

\* clear_exclusion_list
ClearExclusionList ==
    /\ Interactive
    /\ last_dialog' = NoDialog
    /\ exclusion_text' = <<>>
    /\ last_import' = NoImport
    /\ UNCHANGED <<phase, settings_file, input_file_path, output_file_path, dark_mode, active_theme,
                   status_label, generate_button, pointer_vars, invocations, workers,
                   after_queue, shutdown_ui, startup_ui>>

\* _on_closing: _save_settings, destroy; mainloop returns and the process
\* ends, taking its widgets and its daemon threads with it. What is left is
\* the settings file; workers and after_queue stay as the record
\* of how far each run had come
OnClosing ==
    /\ Interactive
    /\ settings_file' = save_settings(dark_mode, exclusion_text)
    /\ shutdown_ui' = [set |-> TRUE, dark |-> dark_mode, text |-> exclusion_text]
    /\ startup_ui' = NoUi
    /\ phase' = "closed"
    /\ input_file_path' = ""
    /\ output_file_path' = ""
    /\ exclusion_text' = <<>>
    /\ dark_mode' = FALSE
    /\ active_theme' = "light"
    /\ status_label' = Ready
    /\ last_dialog' = NoDialog
    /\ generate_button' = NewButton
    /\ last_import' = NoImport
    /\ UNCHANGED <<pointer_vars, invocations, workers, after_queue>>

\* the program is launched again
Relaunch ==
    /\ phase \in {"closed", "crashed"}
    /\ phase' = "boot"
    /\ input_file_path' = ""
    /\ output_file_path' = ""
    /\ exclusion_text' = <<>>
    /\ dark_mode' = FALSE
    /\ active_theme' = "light"
    /\ status_label' = Ready
    /\ last_dialog' = NoDialog
    /\ generate_button' = NewButton
    /\ pointer_down' = FALSE
    /\ press_enabled' = FALSE
    /\ invocations' = 0
    /\ workers' = [r \in Runs |-> IdleWorker]
    /\ after_queue' = <<>>
    /\ last_import' = NoImport
    /\ UNCHANGED <<settings_file, shutdown_ui, startup_ui>>

---------------------------------------------------------------------------
(* Generation runs *)

\* threads that were started and whose result has not been handled yet
InFlight == {r \in Runs : workers[r].pc # "idle"}

\* what the UI fields hold now
UiRequest == [input_path |-> input_file_path, output_path |-> output_file_path, exclusion |-> exclusion_text]

\* start_generation_thread, called with the button as _on_release repainted it
start_generation_thread(b) ==
    /\ status_label' = <<"Processing", "">>
    /\ generate_button' = disable(b)
    /\ \E r \in Runs \ InFlight :
          /\ \A q \in Runs \ InFlight : r <= q
          /\ workers' = [workers EXCEPT ![r] = [IdleWorker EXCEPT !.pc = "started", !.snapshot = UiRequest]]

\* a click on the Generate button: _on_press, then _on_release with its
\* repaint and the command
ClickGenerate ==
    /\ Interactive
    /\ last_import' = NoImport
    /\ last_dialog' = NoDialog
    /\ IF ~generate_button.disabled
       THEN /\ Cardinality(InFlight) < MaxRuns
            /\ start_generation_thread(on_release(on_press(generate_button)))
       ELSE UNCHANGED <<status_label, generate_button, workers>>
    /\ UNCHANGED <<phase, settings_file, input_file_path, output_file_path, exclusion_text, dark_mode,
                   active_theme, pointer_vars, invocations, after_queue,
                   shutdown_ui, startup_ui>>

\* a scheduling that runs the callback twice
after_twice(queue, r, result) == Append(Append(queue, <<r, result>>), <<r, result>>)

\* self.after(0, self.on_generation_complete, result), called by thread r
after(queue, r, result) == Append(queue, <<r, result>>)

\* what generate_word_cloud can raise, each named by its message: open() or read() an OSError or a
\* UnicodeDecodeError, the renderer a ValueError, savefig an OSError; all are
\* subclasses of Exception
Failures == {"read_error", "render_error", "write_error"}

\* a try/except that catches OSError from open() alone
threaded_generate_narrow_except(raised, output_path) == IF raised = "none" THEN <<"success", output_path>> ELSE IF raised = "read_error" THEN <<"error", raised>> ELSE <<"escaped", raised>>

\* _threaded_generate's try/except: the result built from what
\* generate_word_cloud returned or raised; what "except Exception" does not
\* catch leaves the thread
threaded_generate(raised, output_path) == IF raised = "none" THEN <<"success", output_path>> ELSE IF raised \in Failures THEN <<"error", raised>> ELSE <<"escaped", raised>>

\* the worker thread builds its result and posts it; an exception that
\* leaves _threaded_generate ends the thread before self.after is reached
Post(r, w, raised) ==
    LET result == threaded_generate(raised, w.output_path)
    IN IF result[1] = "escaped"
       THEN /\ workers' = [workers EXCEPT ![r] = [w EXCEPT !.pc = "escaped", !.snapshot = NoRequest, !.output_path = "", !.raised = raised]]
            /\ UNCHANGED after_queue
       ELSE /\ workers' = [workers EXCEPT ![r] = [w EXCEPT !.pc = "posted", !.snapshot = NoRequest, !.output_path = "", !.raised = raised]]
            /\ after_queue' = after(after_queue, r, result)

\* generate_word_cloud, first half, on the worker thread: the two paths are
\* read from the StringVars, the input file is opened and read
WorkerReadInput(r) ==
    /\ phase = "running"
    /\ workers[r].pc = "started"
    /\ LET w == [workers[r] EXCEPT !.output_path = output_file_path,
                                   !.fresh = (input_file_path = workers[r].snapshot.input_path /\ output_file_path = workers[r].snapshot.output_path),
                                   !.snapshot.input_path = "",
                                   !.snapshot.output_path = ""]
       IN \/ workers' = [workers EXCEPT ![r] = [w EXCEPT !.pc = "opened"]] /\ UNCHANGED after_queue
          \/ Post(r, w, "read_error")
    /\ UNCHANGED <<phase, settings_file, input_file_path, output_file_path, exclusion_text, dark_mode,
                   active_theme, status_label, last_dialog, generate_button, pointer_vars, invocations,
                   last_import, shutdown_ui, startup_ui>>

\* generate_word_cloud, second half, on the worker thread: the exclusion text
\* is read from the widget, the cloud is rendered and saved
WorkerRender(r) ==
    /\ phase = "running"
    /\ workers[r].pc = "opened"
    /\ LET w == [workers[r] EXCEPT !.fresh = (@ /\ exclusion_text = workers[r].snapshot.exclusion)]
       IN \E raised \in {"none", "render_error", "write_error"} : Post(r, w, raised)
    /\ UNCHANGED <<phase, settings_file, input_file_path, output_file_path, exclusion_text, dark_mode,
                   active_theme, status_label, last_dialog, generate_button, pointer_vars, invocations,
                   last_import, shutdown_ui, startup_ui>>

\* on_generation_complete(result), run by the event loop of the UI thread;
\* the thread that posted the result has ended
OnGenerationComplete ==
    /\ phase = "running"
    /\ last_import' = NoImport
    /\ after_queue # <<>>
    /\ LET r == Head(after_queue)[1]
           result == Head(after_queue)[2]
       IN /\ after_queue' = Tail(after_queue)
          /\ IF result[1] = "success"
             THEN /\ status_label' = <<"Success", result[2]>>
                  /\ last_dialog' = <<"showinfo", "Word cloud saved successfully to", result[2]>>
             ELSE /\ status_label' = <<"Error", result[2]>>
                  /\ last_dialog' = <<"showerror", "An unexpected error occurred", result[2]>>
          /\ generate_button' = update_generate_button_state(generate_button, input_file_path, output_file_path)
          /\ workers' = [workers EXCEPT ![r] = IdleWorker]
    /\ UNCHANGED <<phase, settings_file, input_file_path, output_file_path, exclusion_text, dark_mode,
                   active_theme, pointer_vars, invocations, shutdown_ui, startup_ui>>

---------------------------------------------------------------------------
(* Specifications *)

\* a first launch: there is no settings file yet
Init == ProcessStart(FileOfKind("missing"), "boot")

Next ==
    \/ Startup
    \/ Layout
    \/ DeferredDraw
    \/ ClickGenerate
    \/ SelectInputFile
    \/ SetOutputFile
    \/ ToggleTheme
    \/ EditExclusionText(RunTexts)
    \/ ImportExclusionList(RunTexts, RunTexts)
    \/ ClearExclusionList
    \/ \E r \in Runs : WorkerReadInput(r)
    \/ \E r \in Runs : WorkerRender(r)
    \/ OnGenerationComplete
    \/ OnClosing

Spec == Init /\ [][Next]_vars

\* worker threads run to their end and the event loop of the UI thread runs
\* the callbacks scheduled on it
FairSpec == Spec /\ (\A r \in Runs : WF_vars(WorkerReadInput(r)) /\ WF_vars(WorkerRender(r))) /\ WF_vars(OnGenerationComplete)

InitSettings == \E file \in SettingsFiles(Texts(MaxText)) : ProcessStart(file, "boot")

NextSettings ==
    \/ Startup
    \/ Layout
    \/ DeferredDraw
    \/ ToggleTheme
    \/ EditExclusionText(Texts(MaxText))
    \/ ImportExclusionList(Texts(MaxFile), Texts(MaxText))
    \/ ClearExclusionList
    \/ OnClosing
    \/ Relaunch

SpecSettings == InitSettings /\ [][NextSettings]_vars

InitButton == ProcessStart(NoSettings, "widget")

NextButton ==
    \/ Layout
    \/ DeferredDraw
    \/ Enter
    \/ Leave
    \/ Press
    \/ ReleaseButton
    \/ CallDisable
    \/ CallEnable
    \/ CallConfigureColors

SpecButton == InitButton /\ [][NextButton]_vars

---------------------------------------------------------------------------
(* Claims about the running application *)

BothPathsSet == input_file_path # "" /\ output_file_path # ""

\* C1: the Generate button is enabled only if both paths are non-empty, and
\* while no generation run is in flight it is enabled exactly if both are
C1_GenerateEnablement ==
    phase = "running" =>
        /\ ~generate_button.disabled => BothPathsSet
        /\ InFlight = {} => (~generate_button.disabled <=> BothPathsSet)

\* C1 witness: after a failed run has been handled the button is enabled again
C1_Witness == phase = "running" /\ InFlight = {} /\ ~generate_button.disabled /\ status_label[1] = "Error"

\* C2 as claimed: while a run is in flight the Generate button stays disabled
\* and no second worker thread is in flight
C2_AtMostOneInFlight ==
    (phase = "running" /\ InFlight # {}) => (generate_button.disabled /\ Cardinality(InFlight) <= 1)

\* the number of callbacks in the queue that thread r scheduled
Scheduled(r) == Cardinality({i \in 1..Len(after_queue) : after_queue[i][1] = r})

\* a run has its next step enabled, or its one callback waiting in the queue
C3_RunCanProceed ==
    \A r \in Runs :
        /\ Scheduled(r) = (IF workers[r].pc = "posted" THEN 1 ELSE 0)
        /\ workers[r].pc \in {"idle", "started", "opened", "posted"}
        /\ (phase = "running" /\ workers[r].pc = "started") => ENABLED WorkerReadInput(r)
        /\ (phase = "running" /\ workers[r].pc = "opened") => ENABLED WorkerRender(r)
        /\ (phase = "running" /\ workers[r].pc = "posted") => ENABLED OnGenerationComplete

\* a run moves Idle -> Running -> Completed -> Idle, and leaves Completed by
\* on_generation_complete taking its callback from the queue, which leaves a
\* status other than "Processing" and the button as the enablement rule has it
C3_RunStep ==
    \A r \in Runs :
        /\ workers[r].pc = "idle" => workers'[r].pc \in {"idle", "started"}
        /\ workers[r].pc = "started" => workers'[r].pc \in {"started", "opened", "posted"}
        /\ workers[r].pc = "opened" => workers'[r].pc \in {"opened", "posted"}
        /\ workers[r].pc = "posted" => workers'[r].pc \in {"posted", "idle"}
        /\ (workers[r].pc = "posted" /\ workers'[r].pc = "idle") =>
              /\ Head(after_queue)[1] = r
              /\ after_queue' = Tail(after_queue)
              /\ status_label' = <<IF Head(after_queue)[2][1] = "success" THEN "Success" ELSE "Error", Head(after_queue)[2][2]>>
              /\ status_label'[1] # "Processing"
              /\ generate_button'.disabled <=> ~(input_file_path' # "" /\ output_file_path' # "")

\* C3 as amended: every run follows Idle -> Running -> Completed -> Idle; its
\* result is handled by on_generation_complete at most once, and while the
\* window is open it has its next step, or its one queued callback, ready to
\* run, so that it is handled exactly once unless the window is closed first
C3_DeliveredOnceUnlessClosed == []C3_RunCanProceed /\ [][C3_RunStep]_vars

\* with worker threads and the event loop scheduled fairly (FairSpec), a run
\* that was started is handled, or the window is closed
C3_EventuallyHandled == \A r \in Runs : (workers[r].pc # "idle") ~> (workers[r].pc = "idle" \/ phase = "closed")

\* C3 witness: a run has been handled and no run is left in flight
C3_Witness == phase = "running" /\ InFlight = {} /\ status_label[1] \in {"Success", "Error"}

\* C3 as claimed, at the end of the process: no run is left whose result was
\* never handled
C3_EveryRunDelivered == phase = "closed" => InFlight = {}

\* C4: a failure of the generation steps becomes an error result with its
\* message and never leaves the thread; on_generation_complete shows the
\* message in the status bar and in an error dialog, and the application runs
\* on with the button as the enablement rule has it
C4_FailureStep ==
    \A r \in Runs :
        /\ workers'[r].pc # "escaped"
        /\ (workers'[r].pc = "posted" /\ workers'[r].raised \in Failures) =>
              \E i \in 1..Len(after_queue') : after_queue'[i] = <<r, <<"error", workers'[r].raised>>>>
        /\ (workers[r].pc = "posted" /\ workers[r].raised \in Failures /\ workers'[r].pc = "idle") =>
              /\ status_label' = <<"Error", workers[r].raised>>
              /\ last_dialog' = <<"showerror", "An unexpected error occurred", workers[r].raised>>
              /\ phase' = "running"
              /\ generate_button'.disabled <=> ~(input_file_path' # "" /\ output_file_path' # "")

C4_FailuresCaught == [][C4_FailureStep]_vars

\* C4 witness: the error of a failed write is in the status bar and the dialog
C4_Witness ==
    /\ phase = "running"
    /\ status_label = <<"Error", "write_error">>
    /\ last_dialog = <<"showerror", "An unexpected error occurred", "write_error">>
    /\ ~generate_button.disabled

\* C5 as claimed: what a worker thread reads is what the UI fields held when
\* start_generation_thread was called
C5_InputsAreSnapshot == \A r \in Runs : workers[r].fresh

---------------------------------------------------------------------------
(* Claims about the settings file and the exclusion text (SpecSettings) *)

\* C7 as claimed: with the settings file missing or holding no valid settings
\* data, startup goes through and the UI has the defaults
C7_LoadFailsSoft ==
    (phase \in {"running", "crashed"} /\ settings_file.kind \in InvalidKinds) =>
        (phase = "running" /\ startup_ui = [set |-> TRUE, dark |-> FALSE, text |-> DefaultExclusionText])

\* C8: the startup after a shutdown has the theme flag the UI had at shutdown
\* and its exclusion text with leading and trailing whitespace trimmed, an
\* empty text staying empty
C8_SettingsRoundTrip ==
    (phase = "running" /\ startup_ui.set /\ shutdown_ui.set) =>
        /\ startup_ui.dark = shutdown_ui.dark
        /\ startup_ui.text = strip(shutdown_ui.text)
        /\ shutdown_ui.text = <<>> => startup_ui.text = <<>>

\* C8 witness: a dark UI closed with a text of whitespace alone starts dark
\* and with an empty text
C8_Witness ==
    /\ phase = "running"
    /\ startup_ui = [set |-> TRUE, dark |-> TRUE, text |-> <<>>]
    /\ shutdown_ui.set /\ shutdown_ui.text # <<>>

\* C9 as claimed: an import into an empty text leaves the file's content, an
\* import into any other text leaves that text, one newline and the content
C9_ImportAppends ==
    last_import.done =>
        last_import.after = (IF last_import.before = <<>> THEN last_import.content ELSE last_import.before \o <<"\n">> \o last_import.content)

---------------------------------------------------------------------------
(* Claims about the RoundedButton (SpecButton) *)

\* C6 as claimed: the command is called only by a release that follows a
\* press on the button, with the button enabled at the press and at the release
C6_FiresOnFullClick ==
    [][invocations' # invocations => (pointer_down /\ ~pointer_down' /\ press_enabled /\ ~generate_button.disabled)]_vars

\* C10: while the button is disabled no step calls its command, no pointer
\* event changes what is painted, and whatever is painted anew is painted in
\* the disabled colour of the palette in force
C10_DisabledStep ==
    (generate_button.disabled /\ generate_button'.disabled) =>
        /\ invocations' = invocations
        /\ pointer_vars' # pointer_vars => generate_button'.painted = generate_button.painted
        /\ generate_button'.painted # generate_button.painted => generate_button'.painted = [kind |-> "disabled", palette |-> generate_button'.palette]

C10_DisabledIsInert == [][C10_DisabledStep]_vars

\* C10 witness: a disabled button, re-coloured for the dark theme, is pressed
\* and shows the dark disabled colour
C10_Witness ==
    /\ generate_button.disabled
    /\ pointer_down
    /\ generate_button.painted = [kind |-> "disabled", palette |-> "dark"]

====
